---- MODULE Spec2Model ----
(***************************************************************************)
(* A model of the `oam` command line tool (openapi-sh/cli).                *)
(*                                                                         *)
(* The state is the workspace on disk (the API description file and the    *)
(* flavour configuration file), the position of the running command, the   *)
(* values the command holds, the trace of the effects it has performed     *)
(* and the result it returns to main.                                      *)
(***************************************************************************)
EXTENDS Integers, Sequences, FiniteSets, TLC

\* ------------------------------------------------------------------ bounds
MaxPaths == 2          \* path strings a description may declare
MaxComponents == 3     \* component names a description may declare
MaxTemplates == 2      \* template entries a flavour may list
MaxLine == 2           \* lines of a file a syntax error may sit on
MaxText == 1           \* texts an existing .openapi/config.toml may hold
MaxCommands == 3       \* commands run one after the other on a workspace

\* Path strings and component names are numbered in lexicographic order.
PathKeys == 1..MaxPaths
Names == 1..MaxComponents

\* ------------------------------------------------------- Option and Result
\* Option<T> is the set of at most one T.
None == {}
Some(x) == {x}
IsSome(o) == o # {}
Unwrap(o) == CHOOSE x \in o : TRUE
Option(S) == {None} \cup {Some(x) : x \in S}

\* An error value: the Rust type that carries it, its reason and the line of
\* the input it points at (0 when it points at none).
Error(type, reason, line) == [type |-> type, reason |-> reason, line |-> line]
NoError == Error("none", "none", 0)

Ok(v) == [ok |-> TRUE, val |-> v, err |-> NoError]
Err(e) == [ok |-> FALSE, val |-> {}, err |-> e]

\* ------------------------------------------------------------ file contents
\* A path is the tuple of its components.
SchemaFile(name) == <<name>>
FlavourConfigFile(name) == <<".openapi", "flavours", name, "config.toml">>

\* A node of the description where a ReferenceOr<ResponseObject> is read:
\* whether it has the `description` key ResponseObject requires, and the
\* target of its `$ref` key when it has one.
Inline == [description |-> TRUE, ref |-> None]
Ref(n) == [description |-> FALSE, ref |-> Some(n)]
RawNodes == {Inline} \cup {Ref(n) : n \in Names}
\* The two nodes that are not one or the other: both keys, and neither.
OddNodes == {[description |-> TRUE, ref |-> Some(1)], [description |-> FALSE, ref |-> None]}

\* components.responses as written in the file: name -> node.
RawResponses ==
    UNION {[D -> RawNodes] : D \in SUBSET Names} \cup [{1} -> OddNodes]

\* A node where a ReferenceOr<ExampleObject> is read: whether it is a YAML
\* mapping at all, and the target of its `$ref` key when it has one. None of
\* the keys of ExampleObject is required.
ExampleNodes ==
    {[mapping |-> FALSE, ref |-> None], [mapping |-> TRUE, ref |-> None]}
    \cup {[mapping |-> TRUE, ref |-> Some(n)] : n \in Names}

\* components.examples as written in the file: name -> node.
RawExamples == [{1} -> ExampleNodes]

\* What the description file holds: nothing (no such file), text that is not
\* YAML (a syntax error on `line`), or a YAML mapping with or without the
\* `openapi` key, with the optional `paths`, `components.responses` and
\* `components.examples`.
AbsentFile == [kind |-> "absent", line |-> 0, openapi |-> FALSE,
               paths |-> None, responses |-> None, examples |-> None]
SchemaContents ==
    {AbsentFile}
    \cup {[kind |-> "syntax", line |-> l, openapi |-> FALSE,
           paths |-> None, responses |-> None, examples |-> None] : l \in 1..MaxLine}
    \cup {[kind |-> "map", line |-> 0, openapi |-> FALSE,
           paths |-> None, responses |-> None, examples |-> None]}
    \cup [kind : {"map"}, line : {0}, openapi : {TRUE},
          paths : Option(SUBSET PathKeys), responses : {None}, examples : {None}]
    \cup [kind : {"map"}, line : {0}, openapi : {TRUE},
          paths : {None, Some(PathKeys)}, responses : {Some(r) : r \in RawResponses},
          examples : {None}]
    \cup [kind : {"map"}, line : {0}, openapi : {TRUE},
          paths : {None}, responses : {None}, examples : {Some(e) : e \in RawExamples}]

\* A template entry of a flavour configuration: one without an iteration
\* directive names its output file, one with a directive has the key
\* placeholder in its output pattern.
Iterations == {"paths", "components.responses", "nowhere"}
Templates ==
    [input : {"handler"}, output : {"a.rs", "b.rs"}, iteration : {None}]
    \cup [input : {"handler"}, output : {"{key}.rs"},
          iteration : {Some(d) : d \in Iterations}]

TemplateLists == UNION {[1..n -> Templates] : n \in 0..MaxTemplates}

\* What a flavour's config.toml holds: nothing (no such file or directory),
\* text that is not TOML, or a TOML table with or without the `language` and
\* `templates` keys. The file `create` leaves behind is the empty table.
AbsentConfig == [kind |-> "absent", line |-> 0, language |-> FALSE, templates |-> None]
EmptyConfig == [kind |-> "table", line |-> 0, language |-> FALSE, templates |-> None]
FlavourContents ==
    {AbsentConfig, EmptyConfig}
    \cup {[kind |-> "syntax", line |-> l, language |-> FALSE,
           templates |-> None] : l \in 1..MaxLine}
    \cup [kind : {"table"}, line : {0}, language : {TRUE},
          templates : Option(TemplateLists)]

VARIABLES
    files,      \* the workspace: file path -> contents
    pc,         \* position of the process: "main", a step of run, "exit"
    config,     \* AppConfig of the running command
    schema,     \* run's _schema: Option<OpenAPI>
    flavour,    \* run's _flavour: Option<Flavour>
    events,     \* the effects the process has performed, in order
    result,     \* what the command returned to main: Option<Result<()>>
    store       \* the data of the wasmtime Store that is alive: Option<u32>

vars == <<files, pc, config, schema, flavour, events, result, store>>

\* std::fs on the workspace: a path the workspace does not hold is absent.
ReadFile(path) == IF path \in DOMAIN files THEN files[path] ELSE AbsentFile

\* ------------------------------------------------------- the document model
\* ReferenceOr<T>: the Value variant (the inline T, its content left out) or
\* the Reference variant with the target of its `$ref`.
Value == [variant |-> "Value", reference |-> 0]
Reference(target) == [variant |-> "Reference", reference |-> target]

\* #[serde(untagged)] tries the variants in the order they are declared:
\* Value(ResponseObject) matches any mapping with a `description` (unknown
\* keys such as `$ref` are ignored), Reference(ReferenceObject) any mapping
\* with a `$ref`, and a mapping with neither matches no variant.
ParseReferenceOr(raw) ==
    IF raw.description THEN Ok(Value)
    ELSE IF IsSome(raw.ref) THEN Ok(Reference(Unwrap(raw.ref)))
    ELSE Err(Error("serde_yaml::Error", "no variant of ReferenceOr", 1))

\* The same for a T none of whose fields is required (ExampleObject,
\* HeaderObject, LinkObject, PathItemObject): Value(T) matches any mapping,
\* with or without a `$ref`, so Reference is tried for no mapping; a node
\* that is no mapping matches no variant.
ParseReferenceOrOptional(raw) ==
    IF raw.mapping THEN Ok(Value)
    ELSE Err(Error("serde_yaml::Error", "no variant of ReferenceOr", 1))

\* Deserialize for OpenAPI: `openapi` is required, every other field is an
\* Option; the keys of a HashMap lose the order the file gives them.
DeserializeOpenAPI(content) ==
    IF ~content.openapi
    THEN Err(Error("serde_yaml::Error", "missing field openapi", 1))
    ELSE IF /\ IsSome(content.responses)
            /\ \E n \in DOMAIN Unwrap(content.responses) :
                   ~ParseReferenceOr(Unwrap(content.responses)[n]).ok
    THEN Err(Error("serde_yaml::Error", "no variant of ReferenceOr", 1))
    ELSE IF /\ IsSome(content.examples)
            /\ \E n \in DOMAIN Unwrap(content.examples) :
                   ~ParseReferenceOrOptional(Unwrap(content.examples)[n]).ok
    THEN Err(Error("serde_yaml::Error", "no variant of ReferenceOr", 1))
    ELSE Ok([paths |-> content.paths,
             responses |->
                 IF IsSome(content.responses)
                 THEN LET raw == Unwrap(content.responses)
                      IN  Some([n \in DOMAIN raw |-> ParseReferenceOr(raw[n]).val])
                 ELSE None,
             examples |->
                 IF IsSome(content.examples)
                 THEN LET raw == Unwrap(content.examples)
                      IN  Some([n \in DOMAIN raw |-> ParseReferenceOrOptional(raw[n]).val])
                 ELSE None])

\* serde_yaml::from_reader: a syntax error is reported with its line.
FromReader(content) ==
    IF content.kind = "syntax"
    THEN Err(Error("serde_yaml::Error", "syntax", content.line))
    ELSE DeserializeOpenAPI(content)

\* OpenAPI::from(path): File::open(path)? hands the io::Error on as it is;
\* map_err(|_| anyhow!("Could not parse file")) replaces the parser's error.
OpenAPI_from(path) ==
    LET content == ReadFile(SchemaFile(path))
    IN  IF content.kind = "absent"
        THEN Err(Error("io::Error", "NotFound", 0))
        ELSE LET parsed == FromReader(content)
             IN  IF parsed.ok THEN parsed
                 ELSE Err(Error("anyhow::Error", "Could not parse file", 0))

\* ------------------------------------------------------------ the flavour
\* toml::from_str for Flavour: `language` and `templates` are required.
TomlFromStr(content) ==
    IF content.kind = "syntax"
    THEN Err(Error("toml::de::Error", "syntax", content.line))
    ELSE IF ~content.language
    THEN Err(Error("toml::de::Error", "missing field language", 1))
    ELSE IF ~IsSome(content.templates)
    THEN Err(Error("toml::de::Error", "missing field templates", 1))
    ELSE Ok([language |-> "rust", templates |-> Unwrap(content.templates)])

\* get_flavour_config with both of its failures replaced by one message, the
\* way OpenAPI::from replaces its parser's error.
get_flavour_config_masked(name) ==
    LET content == ReadFile(FlavourConfigFile(name))
    IN  IF content.kind = "absent" \/ ~TomlFromStr(content).ok
        THEN Err(Error("anyhow::Error", "Could not load flavour", 0))
        ELSE TomlFromStr(content)

\* get_flavour_config(name): read_to_string(..)? hands the io::Error on as
\* it is; map_err(|error| anyhow!(error)) keeps the parser's error.
get_flavour_config(name) ==
    LET content == ReadFile(FlavourConfigFile(name))
    IN  IF content.kind = "absent"
        THEN Err(Error("io::Error", "NotFound", 0))
        ELSE TomlFromStr(content)

\* --------------------------------------------------------------- effects
\* An effect of the process: the operation, whether it succeeded, what it
\* was applied to and with which argument (0: nothing), and the order in
\* which a printed map shows its keys.
Event(op, ok) == [op |-> op, ok |-> ok, subject |-> 0, arg |-> 0, order |-> <<>>]
Printed(op, order) == [op |-> op, ok |-> TRUE, subject |-> 0, arg |-> 0, order |-> order]
PrintedNumber(op, n) == [op |-> op, ok |-> TRUE, subject |-> 0, arg |-> n, order |-> <<>>]

\* ----------------------------------------------------------- the processor
\* The module process() compiles: it imports host.hello, and its export
\* `hello` pushes HelloParam and calls the import.
HelloParam == 3
StoreData == 4
Wat == [imports |-> {"host.hello"},
        exports |-> {"hello"},
        body |-> <<[instr |-> "i32.const", n |-> HelloParam],
                   [instr |-> "call", n |-> 0]>>]

\* The host function process() links as host.hello: it prints its parameter
\* and the data of the caller's store.
HostHello(data, param) ==
    <<PrintedNumber("println Got", param), PrintedNumber("println host state", data)>>

\* TypedFunc::call: runs the body on a stack; an instruction that is neither
\* a constant nor a call with its parameter on the stack traps.
RECURSIVE Call(_, _, _, _)
Call(body, data, stack, out) ==
    IF body = <<>> THEN [ok |-> TRUE, val |-> out, err |-> NoError]
    ELSE LET i == Head(body)
         IN  IF i.instr = "i32.const"
             THEN Call(Tail(body), data, <<i.n>> \o stack, out)
             ELSE IF i.instr = "call" /\ stack # <<>>
             THEN Call(Tail(body), data, Tail(stack), out \o HostHello(data, Head(stack)))
             ELSE [ok |-> FALSE, val |-> out, err |-> Error("wasmtime::Trap", i.instr, 0)]

\* process() once its store holds `data`: the module is instantiated with
\* the linker, `hello` is looked up and called; each `?` returns the error
\* of the step that failed.
process(data) ==
    LET linker == {"host.hello"}
    IN  IF ~(Wat.imports \subseteq linker)
        THEN [ok |-> FALSE, val |-> <<>>, err |-> Error("anyhow::Error", "unknown import", 0)]
        ELSE IF "hello" \notin Wat.exports
        THEN [ok |-> FALSE, val |-> <<>>, err |-> Error("anyhow::Error", "no export", 0)]
        ELSE Call(Wat.body, data, <<>>, <<>>)

\* ----------------------------------------------------------- the workspace
\* What `init` sets up, in the order it does: three directories and a file.
OpenapiDir == <<".openapi">>
FlavoursDir == <<".openapi", "flavours">>
LanguagesDir == <<".openapi", "languages">>
ConfigFile == <<".openapi", "config.toml">>
InitEntities == <<OpenapiDir, FlavoursDir, LanguagesDir, ConfigFile>>
InitPaths == {InitEntities[i] : i \in DOMAIN InitEntities}

\* What a path of the workspace is: nothing, a directory, or a file with
\* its text (0: the empty file).
Absent == [kind |-> "absent", text |-> 0]
Dir == [kind |-> "dir", text |-> 0]
File(text) == [kind |-> "file", text |-> text]

Exists(fs, path) == path \in DOMAIN fs /\ fs[path].kind # "absent"
Parent(path) == SubSeq(path, 1, Len(path) - 1)
\* The working directory (the empty path) is a directory.
IsDir(fs, path) == path = <<>> \/ (Exists(fs, path) /\ fs[path].kind = "dir")

\* The workspaces a user may run the tool in: whatever is under .openapi is
\* there only when .openapi is a directory.
Workspaces ==
    {fs \in [InitPaths -> {Absent, Dir} \cup {File(t) : t \in 0..MaxText}] :
        /\ \A p \in InitPaths \ {ConfigFile} : fs[p].text = 0
        /\ \A p \in InitPaths \ {OpenapiDir} : Exists(fs, p) => IsDir(fs, OpenapiDir)}

\* std::fs::create_dir(path): fails when the path exists, when its parent is
\* no directory, or when the system refuses (the paths in `denied`).
create_dir(fs, path, denied) ==
    IF Exists(fs, path) \/ ~IsDir(fs, Parent(path)) \/ path \in denied
    THEN [ok |-> FALSE, fs |-> fs]
    ELSE [ok |-> TRUE, fs |-> (path :> Dir) @@ fs]

\* File::create with is_ok(): an existing file is opened and truncated.
create_new_truncating(fs, path, denied) ==
    IF ~IsDir(fs, Parent(path)) \/ path \in denied
       \/ (Exists(fs, path) /\ fs[path].kind = "dir")
    THEN [ok |-> FALSE, fs |-> fs]
    ELSE [ok |-> TRUE, fs |-> (path :> File(0)) @@ fs]

\* File::create_new(path): fails when the path exists, when its parent is no
\* directory, or when the system refuses; else it creates the empty file.
create_new(fs, path, denied) ==
    IF Exists(fs, path) \/ ~IsDir(fs, Parent(path)) \/ path \in denied
    THEN [ok |-> FALSE, fs |-> fs]
    ELSE [ok |-> TRUE, fs |-> (path :> File(0)) @@ fs]

\* ------------------------------------------------------------- the command
\* AppConfig::new: the defaults of the two arguments of `run`.
AppConfig_new(schemaArg, flavourArg) ==
    [schema |-> IF IsSome(schemaArg) THEN Unwrap(schemaArg) ELSE "openapi.yaml",
     flavour |-> IF IsSome(flavourArg) THEN Unwrap(flavourArg) ELSE "default"]

NoConfig == [schema |-> "", flavour |-> ""]

\* The values of --schema and --flavour a caller may pass.
SchemaArgs == Option({"api.yaml"})
FlavourArgs == Option({"axum"})

\* The orders in which a HashMap with the keys S may emit them.
Orders(S) == {f \in [1..Cardinality(S) -> S] : \A i, j \in DOMAIN f : f[i] = f[j] => i = j}

Init ==
    /\ \E s \in SchemaContents, f \in FlavourContents :
           files = (SchemaFile("openapi.yaml") :> s) @@ (FlavourConfigFile("default") :> f)
    /\ pc = "main"
    /\ config = NoConfig
    /\ schema = None
    /\ flavour = None
    /\ events = <<>>
    /\ result = None
    /\ store = None

\* main dispatches Command::Run; run prints its banner.
RunStart ==
    /\ pc = "main"
    /\ \E s \in SchemaArgs, f \in FlavourArgs : config' = AppConfig_new(s, f)
    /\ events' = Append(events, Event("println banner", TRUE))
    /\ pc' = "run schema"
    /\ UNCHANGED <<store, files, schema, flavour, result>>

\* run without the `?` on OpenAPI::from: the failure is noted and the run
\* goes on to the flavour.
RunSchema_unchecked ==
    /\ pc = "run schema"
    /\ LET r == OpenAPI_from(config.schema)
       IN  /\ events' = Append(events, Event("OpenAPI::from", r.ok))
           /\ schema' = IF r.ok THEN Some(r.val) ELSE None
           /\ pc' = "run flavour"
    /\ UNCHANGED <<store, files, config, flavour, result>>

\* let _schema = OpenAPI::from(&config.schema)?;
RunSchema ==
    /\ pc = "run schema"
    /\ LET r == OpenAPI_from(config.schema)
       IN  /\ events' = Append(events, Event("OpenAPI::from", r.ok))
           /\ IF r.ok
              THEN /\ schema' = Some(r.val)
                   /\ pc' = "run flavour"
                   /\ UNCHANGED result
              ELSE /\ result' = Some(Err(r.err))
                   /\ pc' = "exit"
                   /\ UNCHANGED schema
    /\ UNCHANGED <<store, files, config, flavour>>

\* let _flavour = get_flavour_config(config.flavour)?;
RunFlavour ==
    /\ pc = "run flavour"
    /\ LET r == get_flavour_config(config.flavour)
       IN  /\ events' = Append(events, Event("get_flavour_config", r.ok))
           /\ IF r.ok
              THEN /\ flavour' = Some(r.val)
                   /\ pc' = "run print"
                   /\ UNCHANGED result
              ELSE /\ result' = Some(Err(r.err))
                   /\ pc' = "exit"
                   /\ UNCHANGED flavour
    /\ UNCHANGED <<store, files, config, schema>>

\* println!("{:?} {:?}", _schema, _flavour); Ok(())
\* The Debug output of `paths` lists its keys in the HashMap's own order.
RunPrint ==
    /\ pc = "run print"
    /\ LET paths == Unwrap(schema).paths
           keys == IF IsSome(paths) THEN Unwrap(paths) ELSE {}
       IN  \E order \in Orders(keys) :
               events' = Append(events, Printed("println debug", order))
    /\ result' = Some(Ok("unit"))
    /\ pc' = "exit"
    /\ UNCHANGED <<store, files, config, schema, flavour>>

\* The host calls the process has made so far.
HostCalls == Cardinality({i \in DOMAIN events : events[i].op = "println Got"})

\* process() with its store in a static the host function adds its parameter
\* to: an invocation starts from what the earlier ones left.
ProcessNew_static ==
    /\ pc = "main"
    /\ store' = Some(StoreData + HelloParam * HostCalls)
    /\ pc' = "process call"
    /\ UNCHANGED <<files, config, schema, flavour, events, result>>

\* A caller of the library runs processor::process(): the engine, the
\* module, the linker and the store are made anew, the store with StoreData.
ProcessNew ==
    /\ pc = "main"
    /\ store' = Some(StoreData)
    /\ pc' = "process call"
    /\ UNCHANGED <<files, config, schema, flavour, events, result>>

\* process() instantiates the module, calls `hello` and returns: its locals,
\* the store among them, are dropped.
Process ==
    /\ pc = "process call"
    /\ LET r == process(Unwrap(store))
       IN  /\ events' = events \o r.val
           /\ result' = Some(IF r.ok THEN Ok("unit") ELSE Err(r.err))
    /\ store' = None
    /\ pc' = "exit"
    /\ UNCHANGED <<files, config, schema, flavour>>

Next ==
    \/ ProcessNew
    \/ Process
    \/ RunStart
    \/ RunSchema
    \/ RunFlavour
    \/ RunPrint

Spec == Init /\ [][Next]_vars

\* The line init prints for the entity it created, and its closing report
\* with created_entities.
Created(entity) ==
    [op |-> "println Created", ok |-> TRUE, subject |-> entity, arg |-> 0, order |-> <<>>]
Report(created) ==
    PrintedNumber(IF created > 0 THEN "println setup" ELSE "println already setup",
                  created)

\* main dispatches Command::Init. init() tries the four creations in order,
\* counts and prints those that succeeded, reports and returns Ok(()).
init ==
    /\ pc = "main"
    /\ \E denied \in SUBSET InitPaths :
           LET a == create_dir(files, OpenapiDir, denied)
               b == create_dir(a.fs, FlavoursDir, denied)
               c == create_dir(b.fs, LanguagesDir, denied)
               d == create_new(c.fs, ConfigFile, denied)
               oks == <<a.ok, b.ok, c.ok, d.ok>>
               lines == [i \in DOMAIN oks |-> Created(i)]
               printed == SelectSeq(lines, LAMBDA e : oks[e.subject])
           IN  /\ files' = d.fs
               /\ events' = events \o printed \o <<Report(Len(printed))>>
    /\ result' = Some(Ok("unit"))
    /\ pc' = "exit"
    /\ UNCHANGED <<store, config, schema, flavour>>

\* The commands that have returned so far: each ends with its last line.
LastLines == {"println setup", "println already setup", "println host state"}
Completed == Cardinality({i \in DOMAIN events : events[i].op \in LastLines})

\* The process has exited and the tool is started again on the workspace.
Again ==
    /\ pc = "exit"
    /\ Completed < MaxCommands
    /\ pc' = "main"
    /\ result' = None
    /\ UNCHANGED <<store, files, config, schema, flavour, events>>

\* A session on a workspace: init and process(), any number of times.
SessionInit ==
    /\ files \in Workspaces
    /\ pc = "main"
    /\ config = NoConfig
    /\ schema = None
    /\ flavour = None
    /\ events = <<>>
    /\ result = None
    /\ store = None

SessionNext ==
    \/ init
    \/ ProcessNew
    \/ Process
    \/ Again

Session == SessionInit /\ [][SessionNext]_vars

\* ================================================================== claims
Returned == Unwrap(result)
LastEvent == events[Len(events)]

\* The run got past loading the description and the flavour and returned.
Loaded == pc = "exit" /\ IsSome(schema) /\ IsSome(flavour)
Document == Unwrap(schema)
TemplatesLoaded == Unwrap(flavour).templates

\* The events of one operation on one subject, in order.
EventsOf(op, subject) ==
    SelectSeq(events, LAMBDA e : e.op = op /\ e.subject = subject)

\* The effects that process a template (spec 4.4 to 4.6).
TemplateOps == {"context", "render", "write"}

\* ---- C1
\* C1: a failure of OpenAPI::from (opening or parsing the description) is the
\* last thing the run does: the process has exited, the flavour was never
\* loaded, no template was enumerated, rendered or written, and the run's
\* result is that error.
C1_SchemaFailureAbortsRun ==
    \A i \in DOMAIN events :
        (events[i].op = "OpenAPI::from" /\ ~events[i].ok) =>
            /\ i = Len(events)
            /\ pc = "exit"
            /\ flavour = None
            /\ \A j \in DOMAIN events :
                   events[j].op \notin TemplateOps \cup {"get_flavour_config"}
            /\ result = Some(Err(OpenAPI_from(config.schema).err))

\* A run whose description is malformed while its flavour lists templates.
C1_Witness ==
    /\ pc = "exit"
    /\ config = AppConfig_new(None, None)
    /\ ReadFile(SchemaFile(config.schema)).kind = "syntax"
    /\ get_flavour_config(config.flavour).ok
    /\ Len(get_flavour_config(config.flavour).val.templates) > 0
    /\ LastEvent.op = "OpenAPI::from"
    /\ ~LastEvent.ok

\* ---- C9
\* The run called get_flavour_config, on the file ConfigRead.
FlavourAttempted == \E i \in DOMAIN events : events[i].op = "get_flavour_config"
ConfigRead == ReadFile(FlavourConfigFile(config.flavour))
Malformed(content) ==
    \/ content.kind = "syntax"
    \/ content.kind = "table" /\ (~content.language \/ ~IsSome(content.templates))

\* C9: when the run reaches the flavour, a missing configuration file makes
\* the run return the NotFound io::Error, a malformed one makes it return the
\* toml::de::Error of the parser; the two differ in type, and in both cases
\* the run ends there with the error as its result.
C9_FlavourLoadErrors ==
    FlavourAttempted =>
        /\ ConfigRead.kind = "absent" =>
               /\ pc = "exit" /\ IsSome(result) /\ ~Returned.ok
               /\ Returned.err.type = "io::Error"
               /\ Returned.err.reason = "NotFound"
               /\ LastEvent.op = "get_flavour_config"
        /\ Malformed(ConfigRead) =>
               /\ pc = "exit" /\ IsSome(result) /\ ~Returned.ok
               /\ Returned.err.type = "toml::de::Error"
               /\ LastEvent.op = "get_flavour_config"

\* Both failures are reached: this one is the malformed configuration (the
\* missing one is C9_WitnessMissing).
C9_Witness ==
    /\ pc = "exit"
    /\ FlavourAttempted
    /\ ConfigRead.kind = "syntax"
    /\ ~Returned.ok

C9_WitnessMissing ==
    /\ pc = "exit"
    /\ FlavourAttempted
    /\ ConfigRead.kind = "absent"
    /\ ~Returned.ok

\* ---- C10
\* The description file is there and the parser rejects it.
SchemaRead == ReadFile(SchemaFile(config.schema))
SchemaAttempted == \E i \in DOMAIN events : events[i].op = "OpenAPI::from"
SchemaMalformed == SchemaRead.kind # "absent" /\ ~FromReader(SchemaRead).ok

\* C10: when the parser rejects the description, the error the run returns
\* is the parser's error, with the reason and the line the parser reported.
C10_ParseErrorVerbatim ==
    (pc = "exit" /\ SchemaAttempted /\ SchemaMalformed) =>
        /\ IsSome(result) /\ ~Returned.ok
        /\ Returned.err = FromReader(SchemaRead).err

\* ---- C2
\* The node reached from n after k references (0: the chain ended before).
RECURSIVE Follow(_, _, _)
Follow(m, n, k) ==
    IF k = 0 THEN n
    ELSE IF n \in DOMAIN m /\ m[n].variant = "Reference"
    THEN Follow(m, m[n].reference, k - 1)
    ELSE 0

OnCycle(m, n) == \E k \in 1..Cardinality(DOMAIN m) : Follow(m, n, k) = n
HasCycle(doc) ==
    /\ IsSome(doc.responses)
    /\ \E n \in DOMAIN Unwrap(doc.responses) : OnCycle(Unwrap(doc.responses), n)

\* C2: a run that loaded a description with a chain of component references
\* leading back to its start ends with a cycle error as its result.
C2_CycleFailsResolution ==
    (Loaded /\ HasCycle(Document)) =>
        /\ ~Returned.ok
        /\ Returned.err.type = "ReferenceError::Cycle"

\* ---- C3
\* n is a Reference whose chain ends at an inline value of the table.
Resolvable(m, n) ==
    /\ m[n].variant = "Reference"
    /\ \E k \in 1..Cardinality(DOMAIN m) :
           /\ Follow(m, n, k) \in DOMAIN m
           /\ m[Follow(m, n, k)].variant = "Value"

\* The handles resolution yielded for the reference node n.
Handles(n) ==
    LET es == EventsOf("resolve", n) IN {es[i].arg : i \in DOMAIN es}

\* C3: after a run that loaded the description, every Reference whose target
\* exists and is acyclic has been resolved to one handle, and two such
\* References to the same target have the same handle.
C3_SharedIdentity ==
    (Loaded /\ IsSome(Document.responses)) =>
        LET m == Unwrap(Document.responses)
        IN  \A n1, n2 \in DOMAIN m :
                (/\ n1 # n2
                 /\ Resolvable(m, n1) /\ Resolvable(m, n2)
                 /\ m[n1].reference = m[n2].reference) =>
                    /\ Cardinality(Handles(n1)) = 1
                    /\ Handles(n1) = Handles(n2)

\* ---- C4
\* The collection an iteration directive names (spec 4.4): its keys, or None
\* when the description has no such collection.
Collection(doc, directive) ==
    IF directive = "paths" THEN doc.paths
    ELSE IF directive = "components.responses" /\ IsSome(doc.responses)
    THEN Some(DOMAIN Unwrap(doc.responses))
    ELSE None

\* The keys of the contexts the run yielded for template t, in order.
ContextKeys(t) ==
    LET cs == EventsOf("context", t) IN [i \in DOMAIN cs |-> cs[i].arg]

\* C4: after a run that loaded a description with N path strings, a template
\* iterating "paths" has been given exactly N contexts, one per path string.
C4_OneContextPerPath ==
    (Loaded /\ IsSome(Document.paths)) =>
        \A t \in DOMAIN TemplatesLoaded :
            TemplatesLoaded[t].iteration = Some("paths") =>
                /\ Len(ContextKeys(t)) = Cardinality(Unwrap(Document.paths))
                /\ {ContextKeys(t)[i] : i \in DOMAIN ContextKeys(t)} = Unwrap(Document.paths)

\* ---- C5
\* The keys S in lexicographic order.
SortedKeys(S) == CHOOSE f \in Orders(S) : \A i, j \in DOMAIN f : i < j => f[i] < f[j]

\* C5: the contexts of a template with an iteration directive come in the
\* sorted order of the keys of the collection it names, whatever order the
\* HashMap holds them in.
C5_ContextsInKeyOrder ==
    Loaded =>
        \A t \in DOMAIN TemplatesLoaded :
            LET it == TemplatesLoaded[t].iteration
            IN  (IsSome(it) /\ IsSome(Collection(Document, Unwrap(it)))) =>
                    ContextKeys(t) = SortedKeys(Unwrap(Collection(Document, Unwrap(it))))

\* ---- C6
\* The number of events of one operation, on any subject.
Count(op) == Cardinality({i \in DOMAIN events : events[i].op = op})

\* C6: a flavour of two templates without iteration that name the same
\* output file has two contexts with one output path: the run records
\* exactly one OutputCollision and writes the file at most once.
C6_OneCollisionOneWrite ==
    (/\ Loaded
     /\ Len(TemplatesLoaded) = 2
     /\ TemplatesLoaded[1].iteration = None
     /\ TemplatesLoaded[2].iteration = None
     /\ TemplatesLoaded[1].output = TemplatesLoaded[2].output) =>
        /\ Count("OutputCollision") = 1
        /\ Count("write") <= 1

\* ---- C7
\* The directive of template t names no collection of the description.
InvalidTarget(t) ==
    LET it == TemplatesLoaded[t].iteration
    IN  IsSome(it) /\ ~IsSome(Collection(Document, Unwrap(it)))

\* C7: a template whose iteration target is invalid is recorded as such and
\* the run is not aborted: it returns Ok, and every template without a
\* directive still has its one output written.
C7_ScopedFailure ==
    Loaded =>
        \A t \in DOMAIN TemplatesLoaded :
            InvalidTarget(t) =>
                /\ Returned.ok
                /\ Len(EventsOf("InvalidIterationTarget", t)) = 1
                /\ \A u \in DOMAIN TemplatesLoaded :
                       TemplatesLoaded[u].iteration = None =>
                           Len(EventsOf("write", u)) = 1

\* ---- C11
\* The templates whose results the end-of-run report lists, in order.
Reported ==
    LET rs == SelectSeq(events, LAMBDA e : e.op = "report")
    IN  [i \in DOMAIN rs |-> rs[i].subject]

\* C11: after a run over a flavour whose templates have no iteration
\* directive (one context each), the report lists one result per template,
\* in the order of the templates.
C11_ReportInTemplateOrder ==
    (Loaded /\ \A t \in DOMAIN TemplatesLoaded : TemplatesLoaded[t].iteration = None) =>
        Reported = [t \in DOMAIN TemplatesLoaded |-> t]

\* ---- C12
\* The position of the first event of an operation (0: there is none).
FirstOf(op) ==
    IF \E i \in DOMAIN events : events[i].op = op
    THEN CHOOSE i \in DOMAIN events :
             events[i].op = op /\ \A j \in 1..(i - 1) : events[j].op # op
    ELSE 0

\* C12: a run passes Resolved before it processes a template, renders a
\* context before it writes it, and is Done (returns Ok) only after it
\* resolved the graph and enumerated the contexts of every template.
C12_OrchestratorStates ==
    /\ \A j \in DOMAIN events :
           events[j].op \in TemplateOps => (FirstOf("resolved") \in 1..(j - 1))
    /\ \A j \in DOMAIN events :
           events[j].op = "write" =>
               \E i \in 1..(j - 1) :
                   /\ events[i].op = "render"
                   /\ events[i].subject = events[j].subject
                   /\ events[i].arg = events[j].arg
    /\ (Loaded /\ Returned.ok) =>
           /\ FirstOf("resolved") > 0
           /\ \A t \in DOMAIN TemplatesLoaded : Len(EventsOf("enumerated", t)) = 1

\* ---- C14
\* C14: in a description the run has parsed, every components.examples node
\* is one of the two variants, and one that carries a `$ref` key is the
\* Reference to its target (ExampleObject has no required field).
C14_RefNodeIsReference ==
    (IsSome(schema) /\ IsSome(SchemaRead.examples)) =>
        LET raw == Unwrap(SchemaRead.examples)
            parsed == Unwrap(Document.examples)
        IN  \A n \in DOMAIN raw :
                /\ parsed[n].variant \in {"Value", "Reference"}
                /\ IsSome(raw[n].ref) => parsed[n] = Reference(Unwrap(raw[n].ref))

\* The same for components.responses (ResponseObject requires `description`).
C14_ResponseRefNodeIsReference ==
    (IsSome(schema) /\ IsSome(SchemaRead.responses)) =>
        LET raw == Unwrap(SchemaRead.responses)
            parsed == Unwrap(Document.responses)
        IN  \A n \in DOMAIN raw :
                IsSome(raw[n].ref) => parsed[n] = Reference(Unwrap(raw[n].ref))

\* ---- C13
\* C13: in a session of any number of process() invocations, a store is
\* alive only inside an invocation, every invocation starts with a store of
\* its own holding StoreData, and the host state every invocation shows is
\* StoreData: nothing of an earlier invocation reaches a later one.
C13_StorePerInvocation ==
    /\ pc \in {"main", "exit"} => store = None
    /\ pc = "process call" => store = Some(StoreData)
    /\ \A i \in DOMAIN events :
           events[i].op = "println host state" => events[i].arg = StoreData

\* A second invocation of process() has run after a first one returned.
C13_Witness ==
    /\ pc = "exit"
    /\ HostCalls >= 2
    /\ LastEvent.op = "println host state"

\* ---- C15
InitReports == {"println setup", "println already setup"}

\* The closing report of the last init in a trace (Report(0) with op "none"
\* when no init has run).
LastReport(trace) ==
    LET is == {i \in DOMAIN trace : trace[i].op \in InitReports}
    IN  IF is = {} THEN PrintedNumber("none", 0)
        ELSE trace[CHOOSE i \in is : \A j \in is : j <= i]

\* This step is a whole init: it ends with init's closing report.
InitReturns ==
    /\ Len(events') > Len(events)
    /\ events'[Len(events')].op \in InitReports

\* C15: every init leaves each of its four paths that existed before it as
\* it was (an existing config.toml keeps its text) and returns Ok; an init
\* on a workspace that has all four, and any init that follows one that
\* created all four, creates nothing and reports "already setup".
C15_InitIdempotent ==
    [][InitReturns =>
          /\ \A p \in InitPaths : Exists(files, p) => files'[p] = files[p]
          /\ result' = Some(Ok("unit"))
          /\ ((\A p \in InitPaths : Exists(files, p)) \/ LastReport(events).arg = 4) =>
                 /\ files' = files
                 /\ events'[Len(events')] = Report(0)
                 /\ Len(events') = Len(events) + 1]_vars

\* An init has run after an init that created all four entities.
C15_Witness ==
    /\ pc = "exit"
    /\ \E i \in DOMAIN events : events[i].op = "println setup" /\ events[i].arg = 4
    /\ LastEvent = Report(0)

\* An init has run where config.toml held a text and .openapi/flavours was
\* missing.
C15_WitnessKeepsText ==
    /\ pc = "exit"
    /\ files[ConfigFile] = File(1)
    /\ \E i \in DOMAIN events : events[i] = Created(2)

====
